---- MODULE Spec2Model ----
(***************************************************************************)
(* A model of the Mercurial helpers and the known-broken / earliest-known- *)
(* working tables of the bisection tool.                                   *)
(*                                                                         *)
(*   ocs/util/hg_helpers.py                                                *)
(*       exists_and_is_ancestor, get_repo_hash_and_id                      *)
(*   funfuzz/autobisectjs/known_broken_earliest_working.py                 *)
(*       hgrange, known_broken_ranges, earliest_known_working_rev,         *)
(*       common_descendants                                                *)
(*                                                                         *)
(* Python strings are TLA+ strings; find, strip, split and join are        *)
(* computed character by character.  The external "hg" process is the      *)
(* environment: it evaluates the revset text the code hands to it over a   *)
(* history DAG chosen in the initial state.                                *)
(***************************************************************************)
EXTENDS Integers, Sequences, FiniteSets, TLC

VARIABLES
    parents,        \* the history DAG: changeset number -> set of parent numbers
    \* ---- exists_and_is_ancestor
    pc,             \* "idle", "running", "exited", "returned", "raised"
    rev_a, rev_b,   \* the arguments
    returncode,     \* exit status of the hg process
    out,            \* its decoded stdout+stderr
    result,         \* the boolean returned
    exc,            \* the exception subprocess.run raised, "" when none
    launches,       \* hg processes started by the current call
    \* ---- hgrange / common_descendants
    rpc,            \* "idle", "built", "evaluated"
    rfn,            \* which constructor was called
    first_bad, first_good, revs,   \* the arguments
    expr,           \* the revset text returned
    rexc,           \* the exception raised by the constructor, "" when none
    revset,         \* what hg evaluates expr to: a set of hashes
    hgerr,          \* hg's error for expr, "" when none
    \* ---- known_broken_ranges / earliest_known_working_rev
    system, machine, mac_ok,   \* platform.system(), platform.machine(), mac_ver() >= 10.13
    tfn,            \* the table function called last, "none" at start
    options,        \* the options object
    flags,          \* the list of shell flags, as a set
    skip_revs,      \* the skip_revs argument
    skips,          \* list returned by known_broken_ranges
    required,       \* list built by earliest_known_working_rev
    earliest,       \* revset text returned by earliest_known_working_rev
    texc,           \* exception raised by the table function, "" when none
    \* ---- get_repo_hash_and_id
    gpc,            \* position in get_repo_hash_and_id
    repo_dir, repo_rev,   \* the arguments
    hg_log_template_cmds,  \* the revset of the position query in force
    hg_id_full,     \* output of the last position query
    is_on_default,
    update_default, \* the operator's answer
    io,             \* the hg commands run and prompts shown by this call, in order
    exit_status,    \* status of sys.exit, -1 while the process lives
    gret,           \* the tuple returned
    gexc            \* the exception raised, "" when none

oracleVars == <<pc, rev_a, rev_b, returncode, out, result, exc, launches>>
rangeVars  == <<rpc, rfn, first_bad, first_good, revs, expr, rexc, revset, hgerr>>
tableVars  == <<system, machine, mac_ok, tfn, options, flags, skip_revs, skips,
                required, earliest, texc>>
repoVars   == <<gpc, repo_dir, repo_rev, hg_log_template_cmds, hg_id_full, is_on_default,
                update_default, io, exit_status, gret, gexc>>
vars == <<parents, oracleVars, rangeVars, tableVars, repoVars>>

----------------------------------------------------------------------------
(* Bounds *)

MaxRevs == 4        \* changesets in the history DAG
MaxRevList == 2     \* length of the list given to common_descendants
MaxFlags == 2       \* number of shell flags given at once

----------------------------------------------------------------------------
(* Python string functions *)

\* s[lo:hi] for 0 <= lo: the characters at the 0-based positions lo .. hi-1
Slice(s, lo, hi) ==
    LET end == IF hi < Len(s) THEN hi ELSE Len(s)
    IN  IF lo >= end THEN "" ELSE SubSeq(s, lo + 1, end)

\* str.find(sub): the lowest 0-based index where sub occurs, -1 when it does not
Find(s, sub) ==
    LET hits == {i \in 0..(Len(s) - Len(sub)) : Slice(s, i, i + Len(sub)) = sub}
    IN  IF hits = {} THEN -1 ELSE CHOOSE i \in hits : \A j \in hits : i <= j

\* sub in s
Contains(s, sub) == Find(s, sub) >= 0

IsSpace(c) == c \in {" ", "\t", "\n", "\r"}

\* str.strip(): leading and trailing whitespace removed
Strip(s) ==
    LET keep == {i \in 1..Len(s) : ~IsSpace(Slice(s, i - 1, i))}
    IN  IF keep = {} THEN ""
        ELSE Slice(s, (CHOOSE i \in keep : \A j \in keep : i <= j) - 1,
                      CHOOSE i \in keep : \A j \in keep : i >= j)

\* str.split(sep): the pieces between the occurrences of sep
RECURSIVE Split(_, _)
Split(s, sep) ==
    LET i == Find(s, sep)
    IN  IF i < 0 THEN <<s>>
        ELSE <<Slice(s, 0, i)>> \o Split(Slice(s, i + Len(sep), Len(s)), sep)

\* sep.join(items)
RECURSIVE Join(_, _)
Join(sep, items) ==
    IF items = <<>> THEN ""
    ELSE IF Len(items) = 1 THEN items[1]
    ELSE items[1] \o sep \o Join(sep, Tail(items))

Range(seq) == {seq[i] : i \in DOMAIN seq}

----------------------------------------------------------------------------
(* The history DAG and the revset language of hg *)

Nodes == 1..MaxRevs

\* short hashes of the changesets of the DAG, and one hash no changeset has
Hashes == <<"4c72627cfc6c", "926f80f2c5cc", "1fb7ddfad86d", "5202cfbf8d60",
            "aae4f349fa58", "c5fbbf959e23">>
BadHash == "badddddd"
NodeHash(n) == Hashes[n]
KnownHashes == {NodeHash(n) : n \in Nodes}

\* a changeset has at most two parents, all older than itself
Dags == {p \in [Nodes -> SUBSET Nodes] :
            \A n \in Nodes : (\A m \in p[n] : m < n) /\ Cardinality(p[n]) <= 2}

RECURSIVE AncestorsOf(_)
\* ancestors(n), n included
AncestorsOf(n) == {n} \cup UNION {AncestorsOf(m) : m \in parents[n]}

\* descendants(n), n included
DescendantsOf(n) == {m \in Nodes : n \in AncestorsOf(m)}

\* a bare symbol: the changeset with that hash, an error when there is none
Exists(h) == h \in KnownHashes
NodeOf(h) == CHOOSE n \in Nodes : NodeHash(n) = h

\* id(h): the changeset with that hash, the empty set when there is none
Id(h) == IF Exists(h) THEN {NodeOf(h)} ELSE {}

\* ancestor(x, y): the greatest common ancestors, of which hg picks one
Gcas(x, y) ==
    LET common == AncestorsOf(x) \cap AncestorsOf(y)
    IN  {g \in common : \A c \in common : g \in AncestorsOf(c) => c = g}

----------------------------------------------------------------------------
(* exists_and_is_ancestor *)

Sentinel == "abort: unknown revision"

\* the revset with the roles of the two revisions exchanged
AncestryRevsetSwapped(a, b) == b \o " and ancestor(" \o a \o "," \o b \o ")"

\* the revset of the hg log call
AncestryRevset(a, b) == a \o " and ancestor(" \o a \o "," \o b \o ")"

\* hg log -r "<sym> and ancestor(<x>,<y>)" --template={node|short}: the exit status
\* and the output hg can end with.  A symbol no changeset has aborts the command;
\* otherwise the output is the short hash of sym when it is the common ancestor
\* hg picks, and empty when it is not.
HgLogAncestry(q) ==
    LET i     == Find(q, " and ancestor(")
        sym   == Slice(q, 0, i)
        inner == Slice(q, i + Len(" and ancestor("), Len(q) - 1)
        j     == Find(inner, ",")
        x     == Slice(inner, 0, j)
        y     == Slice(inner, j + 1, Len(inner))
        unknown == SelectSeq(<<sym, x, y>>, LAMBDA h : ~Exists(h))
    IN  IF unknown # <<>>
        THEN {[returncode |-> 255,
               out |-> "abort: unknown revision '" \o unknown[1] \o "'!\n"]}
        ELSE LET gcas == Gcas(NodeOf(x), NodeOf(y))
             IN  {[returncode |-> 0,
                   out |-> IF g = NodeOf(sym) THEN NodeHash(g) ELSE ""] : g \in gcas}
                 \cup (IF gcas = {} THEN {[returncode |-> 0, out |-> ""]} ELSE {})

\* ways the hg process ends that have nothing to do with the revisions
HgOtherFailures ==
    {[returncode |-> 255, out |-> "abort: repository repo not found!\n"],
     [returncode |-> -9,  out |-> ""]}

\* the expression returned
AncestorAnswer(o) == o # "" /\ Find(o, Sentinel) < 0

RevArgs == KnownHashes \cup {BadHash}

InitOracle ==
    /\ pc = "idle" /\ rev_a = "" /\ rev_b = "" /\ returncode = 0 /\ out = ""
    /\ result = FALSE /\ exc = "" /\ launches = 0

\* the call, up to the start of the hg process
CallExistsAndIsAncestor(a, b) ==
    /\ pc \in {"idle", "returned", "raised"}
    /\ pc' = "running"
    /\ rev_a' = a /\ rev_b' = b
    /\ returncode' = 0 /\ out' = "" /\ result' = FALSE /\ exc' = ""
    /\ launches' = 1

\* hg evaluates the revset and exits
HgAnswers ==
    /\ pc = "running"
    /\ \E o \in HgLogAncestry(AncestryRevset(rev_a, rev_b)) :
          returncode' = o.returncode /\ out' = o.out
    /\ pc' = "exited"
    /\ UNCHANGED <<rev_a, rev_b, result, exc, launches>>

\* hg exits for another reason
HgFails ==
    /\ pc = "running"
    /\ \E o \in HgOtherFailures : returncode' = o.returncode /\ out' = o.out
    /\ pc' = "exited"
    /\ UNCHANGED <<rev_a, rev_b, result, exc, launches>>

\* a timeout that is answered instead of raised
HgTimesOutAnsweredFalse ==
    /\ pc = "running"
    /\ pc' = "returned" /\ result' = FALSE /\ exc' = "TimeoutExpired"
    /\ UNCHANGED <<rev_a, rev_b, returncode, out, launches>>

\* hg does not exit within the timeout: subprocess.run raises TimeoutExpired,
\* which nothing in the function catches
HgTimesOut ==
    /\ pc = "running"
    /\ pc' = "raised" /\ exc' = "TimeoutExpired"
    /\ UNCHANGED <<rev_a, rev_b, returncode, out, result, launches>>

\* the hg executable cannot be started: subprocess.run raises
HgNotStarted ==
    /\ pc = "running"
    /\ pc' = "raised" /\ exc' = "FileNotFoundError"
    /\ UNCHANGED <<rev_a, rev_b, returncode, out, result, launches>>

\* the return under check=True: a non-zero exit status raises
OracleReturnChecked ==
    /\ pc = "exited"
    /\ IF returncode # 0
       THEN pc' = "raised" /\ exc' = "CalledProcessError" /\ UNCHANGED result
       ELSE pc' = "returned" /\ result' = AncestorAnswer(out) /\ UNCHANGED exc
    /\ UNCHANGED <<rev_a, rev_b, returncode, out, launches>>

\* subprocess.run returns (check=False: whatever the exit status) and the function
\* returns its answer
OracleReturn ==
    /\ pc = "exited"
    /\ pc' = "returned"
    /\ result' = AncestorAnswer(out)
    /\ UNCHANGED <<rev_a, rev_b, returncode, out, exc, launches>>

NextOracle ==
    /\ \/ \E a, b \in RevArgs : CallExistsAndIsAncestor(a, b)
       \/ HgAnswers
       \/ HgFails
       \/ HgTimesOut
       \/ HgNotStarted
       \/ OracleReturn
    /\ UNCHANGED <<parents, rangeVars, tableVars, repoVars>>

----------------------------------------------------------------------------
(* hgrange and common_descendants *)

\* the difference with its operands exchanged
hgrangeSwapped(fb, fg) ==
    "(descendants(id(" \o fg \o "))-descendants(id(" \o fb \o ")))"

\* the f-string hgrange returns
hgrange(fb, fg) ==
    "(descendants(id(" \o fb \o "))-descendants(id(" \o fg \o ")))"

\* the generator joined by common_descendants
common_descendants(rs) ==
    Join(" and ", [i \in DOMAIN rs |-> "descendants(" \o rs[i] \o ")"])

\* the empty string or whitespace only
Malformed(r) == Strip(r) = ""

SetDescendants(ns) == UNION {DescendantsOf(n) : n \in ns}
HashesOf(ns) == {NodeHash(n) : n \in ns}

\* hg log -r <q> for the two shapes of revset the constructors build.  hg's
\* tokenizer skips whitespace, so a blank identifier leaves a function without
\* its argument, which is a parse error; id() of a hash no changeset has is the
\* empty set, while the bare hash is an error.
HgRevset(q) ==
    LET open == "(descendants(id("
        mid  == "))-descendants(id("
    IN  IF Slice(q, 0, Len(open)) = open
        THEN LET body == Slice(q, Len(open), Len(q) - Len(")))"))
                 k    == Find(body, mid)
                 x    == Slice(body, 0, k)
                 y    == Slice(body, k + Len(mid), Len(body))
             IN  IF Malformed(x) \/ Malformed(y)
                 THEN [err |-> "hg: parse error: id requires one argument",
                       revs |-> {}]
                 ELSE [err |-> "",
                       revs |-> HashesOf(SetDescendants(Id(x))
                                         \ SetDescendants(Id(y)))]
        ELSE LET pieces == Split(q, " and ")
                 arg(i) == Slice(pieces[i], Len("descendants("),
                                 Len(pieces[i]) - 1)
                 n == Len(pieces)
             IN  IF q = "" \/ \E i \in 1..n : Malformed(arg(i))
                 THEN [err |-> "hg: parse error", revs |-> {}]
                 ELSE IF \E i \in 1..n : ~Exists(arg(i))
                 THEN [err |-> Sentinel, revs |-> {}]
                 ELSE [err |-> "",
                       revs |-> HashesOf({m \in Nodes : \A i \in 1..n :
                                            m \in DescendantsOf(NodeOf(arg(i)))})]

\* revision texts given to hgrange, and to the list of common_descendants
RevTexts == KnownHashes \cup {BadHash, "", " "}
ListTexts == {NodeHash(1), NodeHash(MaxRevs), BadHash, " "}
RevLists == UNION {[1..n -> ListTexts] : n \in 0..MaxRevList}

InitRange ==
    /\ rpc = "idle" /\ rfn = "none" /\ first_bad = "" /\ first_good = ""
    /\ revs = <<>> /\ expr = "" /\ rexc = "" /\ revset = {} /\ hgerr = ""

\* hgrange with its arguments validated first
CallHgrangeValidated(fb, fg) ==
    /\ rpc = "idle"
    /\ rfn' = "hgrange" /\ first_bad' = fb /\ first_good' = fg /\ revs' = <<>>
    /\ IF Malformed(fb) \/ Malformed(fg)
       THEN rpc' = "raised" /\ rexc' = "InvalidRevision" /\ expr' = ""
       ELSE rpc' = "built" /\ rexc' = "" /\ expr' = hgrange(fb, fg)
    /\ revset' = {} /\ hgerr' = ""

\* hgrange(first_bad, first_good)
CallHgrange(fb, fg) ==
    /\ rpc = "idle"
    /\ rfn' = "hgrange" /\ first_bad' = fb /\ first_good' = fg /\ revs' = <<>>
    /\ rpc' = "built" /\ rexc' = "" /\ expr' = hgrange(fb, fg)
    /\ revset' = {} /\ hgerr' = ""

\* common_descendants(revs)
CallCommonDescendants(rs) ==
    /\ rpc = "idle"
    /\ rfn' = "common_descendants" /\ revs' = rs
    /\ first_bad' = "" /\ first_good' = ""
    /\ rpc' = "built" /\ rexc' = "" /\ expr' = common_descendants(rs)
    /\ revset' = {} /\ hgerr' = ""

\* the caller hands the expression to hg, which evaluates it
HgEvaluates ==
    /\ rpc = "built"
    /\ LET r == HgRevset(expr) IN revset' = r.revs /\ hgerr' = r.err
    /\ rpc' = "evaluated"
    /\ UNCHANGED <<rfn, first_bad, first_good, revs, expr, rexc>>

\* the caller is done with the expression
RangeResultUsed ==
    /\ rpc \in {"evaluated", "raised"}
    /\ rpc' = "idle" /\ rfn' = "none" /\ first_bad' = "" /\ first_good' = ""
    /\ revs' = <<>> /\ expr' = "" /\ rexc' = "" /\ revset' = {} /\ hgerr' = ""

NextRange ==
    /\ \/ /\ rpc = "idle"
          /\ \E fb, fg \in RevTexts : CallHgrange(fb, fg)
       \/ /\ rpc = "idle"
          /\ \E rs \in RevLists : CallCommonDescendants(rs)
       \/ HgEvaluates
       \/ RangeResultUsed
    /\ UNCHANGED <<parents, oracleVars, tableVars, repoVars>>

----------------------------------------------------------------------------
(* known_broken_ranges and earliest_known_working_rev *)

Cond(c, items) == IF c THEN items ELSE <<>>

\* the list of skips with the profiling test read without its "not"
known_broken_ranges_profiling_inverted(o) ==
    <<hgrange("4c72627cfc6c", "926f80f2c5cc"),
      hgrange("1fb7ddfad86d", "5202cfbf8d60"),
      hgrange("aae4f349fa58", "c5fbbf959e23"),
      hgrange("f611bc50d11c", "39d0c50a2209")>>
    \o Cond(system = "Darwin", <<hgrange("3d0236f985f8", "32cef42080b1")>>)
    \o Cond(system = "Linux",
            <<hgrange("e94dceac8090", "516c01f62d84")>>
            \o Cond(machine = "aarch64", <<hgrange("e8bb22053e65", "999757e9e5a5")>>)
            \o Cond(o.disableProfiling, <<hgrange("aa1da5ed8a07", "5a03382283ae")>>))
    \o Cond(~o.enableDbg,
            <<hgrange("c5561749c1c6", "f4c15a88c937"),
              hgrange("247e265373eb", "e4aa68e2a85b")>>)
    \o Cond(o.enableMoreDeterministic, <<hgrange("427b854cdb1c", "4c4e45853808")>>)
    \o Cond(o.enableSimulatorArm32, <<hgrange("284002382c21", "05669ce25b03")>>)

\* the list of skips built by known_broken_ranges(options)
known_broken_ranges(o) ==
    <<hgrange("4c72627cfc6c", "926f80f2c5cc"),
      hgrange("1fb7ddfad86d", "5202cfbf8d60"),
      hgrange("aae4f349fa58", "c5fbbf959e23"),
      hgrange("f611bc50d11c", "39d0c50a2209")>>
    \o Cond(system = "Darwin", <<hgrange("3d0236f985f8", "32cef42080b1")>>)
    \o Cond(system = "Linux",
            <<hgrange("e94dceac8090", "516c01f62d84")>>
            \o Cond(machine = "aarch64", <<hgrange("e8bb22053e65", "999757e9e5a5")>>)
            \o Cond(~o.disableProfiling, <<hgrange("aa1da5ed8a07", "5a03382283ae")>>))
    \o Cond(~o.enableDbg,
            <<hgrange("c5561749c1c6", "f4c15a88c937"),
              hgrange("247e265373eb", "e4aa68e2a85b")>>)
    \o Cond(o.enableMoreDeterministic, <<hgrange("427b854cdb1c", "4c4e45853808")>>)
    \o Cond(o.enableSimulatorArm32, <<hgrange("284002382c21", "05669ce25b03")>>)

\* the loop over flags that sets cpu_count_flag
cpu_count_flag(fl) == \E entry \in fl : Contains(entry, "--cpu-count=")

WasmCompilerFlags == {"--wasm-compiler=none", "--wasm-compiler=baseline+ion",
                      "--wasm-compiler=baseline", "--wasm-compiler=ion"}

\* the required list with the --wasm-gc entry left out
required_revs_without_wasm_gc(o, fl) ==
    Cond("--enable-experimental-fields" \in fl, <<"7a1ad6647c22bd34a6c70e67dc26e5b83f71cea4">>)
    \o Cond(WasmCompilerFlags \cap fl # {}, <<"48dc14f79fb0a51ca796257a4179fe6f16b71b14">>)
    \o Cond("--more-compartments" \in fl, <<"450b8f0cbb4e494b399ebcf23a33b8d9cb883245">>)
    \o Cond("--no-streams" \in fl, <<"c6a8b4d451afa922c4838bd202749c7e131cf05e">>)
    \o Cond(system = "Windows" /\ o.enable32, <<"577ffed9f102439db47afebcef95bbaaa2e04c93">>)
    \o Cond(system = "Windows", <<"c085e1b32fb9bbdb00360bfb0a1057d20a752f4c">>)
    \o Cond("--nursery-strings=on" \in fl \/ "--nursery-strings=off" \in fl,
            <<"321c29f4850882a2f0220a4dc041c53992c47992">>)
    \o Cond("--spectre-mitigations=on" \in fl \/ "--spectre-mitigations=off" \in fl,
            <<"a98f615965d73f6462924188fc2b1f2a620337bb">>)
    \o Cond("--test-wasm-await-tier2" \in fl, <<"b1dc87a94262c1bf2747d2bf560e21af5deb3174">>)
    \o Cond(system = "Darwin", <<"e2ecf684f49e9a6f6d072c289df68ef679968c4c">>)
    \o Cond(cpu_count_flag(fl), <<"1b55231e6628e70f0c2ee2b2cb40a1e9861ac4b4">>)
    \o <<"bb868860dfc35876d2d9c421c037c75a4fb9b3d2">>

\* the required list built by earliest_known_working_rev
required_revs(o, fl) ==
    Cond("--enable-experimental-fields" \in fl, <<"7a1ad6647c22bd34a6c70e67dc26e5b83f71cea4">>)
    \o Cond(WasmCompilerFlags \cap fl # {}, <<"48dc14f79fb0a51ca796257a4179fe6f16b71b14">>)
    \o Cond("--more-compartments" \in fl, <<"450b8f0cbb4e494b399ebcf23a33b8d9cb883245">>)
    \o Cond("--no-streams" \in fl, <<"c6a8b4d451afa922c4838bd202749c7e131cf05e">>)
    \o Cond(system = "Windows" /\ o.enable32, <<"577ffed9f102439db47afebcef95bbaaa2e04c93">>)
    \o Cond(system = "Windows", <<"c085e1b32fb9bbdb00360bfb0a1057d20a752f4c">>)
    \o Cond("--wasm-gc" \in fl, <<"302befe7689abad94a75f66ded82d5e71b558dc4">>)
    \o Cond("--nursery-strings=on" \in fl \/ "--nursery-strings=off" \in fl,
            <<"321c29f4850882a2f0220a4dc041c53992c47992">>)
    \o Cond("--spectre-mitigations=on" \in fl \/ "--spectre-mitigations=off" \in fl,
            <<"a98f615965d73f6462924188fc2b1f2a620337bb">>)
    \o Cond("--test-wasm-await-tier2" \in fl, <<"b1dc87a94262c1bf2747d2bf560e21af5deb3174">>)
    \o Cond(system = "Darwin", <<"e2ecf684f49e9a6f6d072c289df68ef679968c4c">>)
    \o Cond(cpu_count_flag(fl), <<"1b55231e6628e70f0c2ee2b2cb40a1e9861ac4b4">>)
    \o <<"bb868860dfc35876d2d9c421c037c75a4fb9b3d2">>

\* the f-string earliest_known_working_rev returns
earliest_revset(req, sr) ==
    "first((" \o common_descendants(req) \o ") - (" \o sr \o "))"

OptionNames == {"disableProfiling", "enableDbg", "enableMoreDeterministic",
                "enableSimulatorArm32", "enable32"}
OptionSets == [OptionNames -> BOOLEAN]
NoOptions == [n \in OptionNames |-> FALSE]

AllFlags == WasmCompilerFlags \cup
    {"--enable-experimental-fields", "--more-compartments", "--no-streams",
     "--wasm-gc", "--nursery-strings=on", "--nursery-strings=off",
     "--spectre-mitigations=on", "--spectre-mitigations=off",
     "--test-wasm-await-tier2", "--cpu-count=2", "--fuzzing-safe"}
FlagSets == {fl \in SUBSET AllFlags : Cardinality(fl) <= MaxFlags}

SkipRevTexts == {"", hgrange("4c72627cfc6c", "926f80f2c5cc")}

\* the platforms the process can run on: system, machine, macOS at least 10.13
Platforms ==
    {<<"Linux", "x86_64", FALSE>>, <<"Linux", "aarch64", FALSE>>,
     <<"Darwin", "x86_64", TRUE>>, <<"Darwin", "x86_64", FALSE>>,
     <<"Windows", "AMD64", FALSE>>}

InitTableIdle ==
    /\ tfn = "none" /\ options = NoOptions /\ flags = {} /\ skip_revs = ""
    /\ skips = <<>> /\ required = <<>> /\ earliest = "" /\ texc = ""

InitTable ==
    /\ \E p \in Platforms : system = p[1] /\ machine = p[2] /\ mac_ok = p[3]
    /\ InitTableIdle

\* known_broken_ranges(options)
KnownBrokenRanges(o) ==
    /\ tfn \in {"none", "known_broken_ranges"}
    /\ tfn' = "known_broken_ranges"
    /\ options' = o
    /\ skips' = known_broken_ranges(o)
    /\ texc' = ""
    /\ flags' = {} /\ skip_revs' = "" /\ required' = <<>> /\ earliest' = ""
    /\ UNCHANGED <<system, machine, mac_ok>>

\* earliest_known_working_rev(options, flags, skip_revs)
EarliestKnownWorkingRev(o, fl, sr) ==
    /\ tfn = "none"
    /\ tfn' = "earliest_known_working_rev"
    /\ options' = o /\ flags' = fl /\ skip_revs' = sr
    /\ IF system = "Darwin" /\ ~mac_ok
       THEN texc' = "AssertionError" /\ required' = <<>> /\ earliest' = ""
       ELSE /\ texc' = ""
            /\ required' = required_revs(o, fl)
            /\ earliest' = earliest_revset(required_revs(o, fl), sr)
    /\ skips' = <<>>
    /\ UNCHANGED <<system, machine, mac_ok>>

\* the caller is done with the result
TableResultUsed ==
    /\ tfn # "none"
    /\ tfn' = "none" /\ options' = NoOptions /\ flags' = {} /\ skip_revs' = ""
    /\ skips' = <<>> /\ required' = <<>> /\ earliest' = "" /\ texc' = ""
    /\ UNCHANGED <<system, machine, mac_ok>>

NextTable ==
    /\ \/ \E o \in OptionSets : KnownBrokenRanges(o)
       \/ /\ tfn = "none"
          /\ \E o \in OptionSets, fl \in FlagSets, sr \in SkipRevTexts :
                EarliestKnownWorkingRev(o, fl, sr)
       \/ TableResultUsed
    /\ UNCHANGED <<parents, oracleVars, rangeVars, repoVars>>

----------------------------------------------------------------------------
(* get_repo_hash_and_id *)

HgLog(dir, q) == "hg -R " \o dir \o " log -r " \o q
HgUpdate(dir) == "hg -R " \o dir \o " update default"
Input == "input"

\* what the position query can print under the template "{node|short} {rev}":
\* nothing, one changeset, or two changesets run together
PositionOutputs == {"", "4c72627cfc6c 3", "926f80f2c5cc 7",
                    "4c72627cfc6c 3926f80f2c5cc 7"}

RepoDirs == {"mozilla-central", "mozilla-beta"}
RepoRevs == {"parents() and default", "tip"}
Answers == {"a", " a ", "d", "d ", "u", "x", "", "ad"}

InitRepo ==
    /\ gpc = "idle" /\ repo_dir = "" /\ repo_rev = "" /\ hg_log_template_cmds = ""
    /\ hg_id_full = "" /\ is_on_default = FALSE /\ update_default = ""
    /\ io = <<>> /\ exit_status = -1 /\ gret = <<>> /\ gexc = ""

\* from the assert to the return, with hg_id_full = o and is_on_default = d
RepoFinish(o, d) ==
    /\ hg_id_full' = o
    /\ is_on_default' = d
    /\ IF o = ""
       THEN gpc' = "raised" /\ gexc' = "AssertionError" /\ gret' = <<>>
       ELSE LET parts == Split(o, " ")
            IN  IF Len(parts) # 2
                THEN gpc' = "raised" /\ gexc' = "ValueError" /\ gret' = <<>>
                ELSE gpc' = "returned" /\ gexc' = ""
                     /\ gret' = <<parts[1], parts[2], d>>

\* the call, up to the start of the first position query
CallGetRepoHashAndId(dir, r) ==
    /\ gpc \in {"idle", "returned", "raised"}
    /\ repo_dir' = dir /\ repo_rev' = r /\ hg_log_template_cmds' = r
    /\ io' = <<HgLog(dir, r)>>
    /\ gpc' = "query1"
    /\ hg_id_full' = "" /\ is_on_default' = FALSE /\ update_default' = ""
    /\ exit_status' = -1 /\ gret' = <<>> /\ gexc' = ""

\* the first query prints o: on default the function finishes, otherwise the
\* operator is prompted
FirstQueryDone(o) ==
    /\ gpc = "query1"
    /\ IF o # ""
       THEN RepoFinish(o, TRUE) /\ UNCHANGED io
       ELSE /\ hg_id_full' = o /\ is_on_default' = FALSE
            /\ gpc' = "prompt" /\ io' = Append(io, Input)
            /\ UNCHANGED <<gret, gexc>>
    /\ UNCHANGED <<repo_dir, repo_rev, hg_log_template_cmds, update_default, exit_status>>

\* a query or the update exits non-zero (check=True) or times out
HgCommandFails(e) ==
    /\ gpc \in {"query1", "updating", "query2"}
    /\ gpc' = "raised" /\ gexc' = e
    /\ UNCHANGED <<repo_dir, repo_rev, hg_log_template_cmds, hg_id_full, is_on_default,
                   update_default, io, exit_status, gret>>

\* the operator's answer with "a" treated as no choice at all being made:
\* the position is queried again
OperatorAnswersNoExit(ans) ==
    /\ gpc = "prompt"
    /\ update_default' = Strip(ans)
    /\ IF Strip(ans) = "d"
       THEN gpc' = "updating" /\ io' = Append(io, HgUpdate(repo_dir))
            /\ UNCHANGED <<hg_log_template_cmds, exit_status, gexc>>
       ELSE IF Strip(ans) \in {"a", "u"}
       THEN gpc' = "query2" /\ hg_log_template_cmds' = "parents()"
            /\ io' = Append(io, HgLog(repo_dir, "parents()"))
            /\ UNCHANGED <<exit_status, gexc>>
       ELSE gpc' = "raised" /\ gexc' = "ValueError"
            /\ UNCHANGED <<hg_log_template_cmds, io, exit_status>>
    /\ UNCHANGED <<repo_dir, repo_rev, hg_id_full, is_on_default, gret>>

\* the operator answers the prompt: the answer is stripped, then "a" exits the
\* process with status 0, "d" starts the update, "u" starts the query of
\* parents(), anything else raises ValueError
OperatorAnswers(ans) ==
    /\ gpc = "prompt"
    /\ update_default' = Strip(ans)
    /\ IF Strip(ans) = "a"
       THEN gpc' = "exited" /\ exit_status' = 0
            /\ UNCHANGED <<hg_log_template_cmds, io, gexc>>
       ELSE IF Strip(ans) = "d"
       THEN gpc' = "updating" /\ io' = Append(io, HgUpdate(repo_dir))
            /\ UNCHANGED <<hg_log_template_cmds, exit_status, gexc>>
       ELSE IF Strip(ans) = "u"
       THEN gpc' = "query2" /\ hg_log_template_cmds' = "parents()"
            /\ io' = Append(io, HgLog(repo_dir, "parents()"))
            /\ UNCHANGED <<exit_status, gexc>>
       ELSE gpc' = "raised" /\ gexc' = "ValueError"
            /\ UNCHANGED <<hg_log_template_cmds, io, exit_status>>
    /\ UNCHANGED <<repo_dir, repo_rev, hg_id_full, is_on_default, gret>>

\* the update succeeds: is_on_default is set and the second query starts
UpdateDone ==
    /\ gpc = "updating"
    /\ is_on_default' = TRUE
    /\ gpc' = "query2" /\ io' = Append(io, HgLog(repo_dir, hg_log_template_cmds))
    /\ UNCHANGED <<repo_dir, repo_rev, hg_log_template_cmds, hg_id_full, update_default,
                   exit_status, gret, gexc>>

\* the second query prints o and the function finishes
SecondQueryDone(o) ==
    /\ gpc = "query2"
    /\ RepoFinish(o, is_on_default)
    /\ UNCHANGED <<repo_dir, repo_rev, hg_log_template_cmds, update_default, io, exit_status>>

NextRepo ==
    /\ \/ \E dir \in RepoDirs, r \in RepoRevs : CallGetRepoHashAndId(dir, r)
       \/ \E o \in PositionOutputs : FirstQueryDone(o)
       \/ \E e \in {"CalledProcessError", "TimeoutExpired"} : HgCommandFails(e)
       \/ \E ans \in Answers : OperatorAnswers(ans)
       \/ UpdateDone
       \/ \E o \in PositionOutputs : SecondQueryDone(o)
    /\ UNCHANGED <<parents, oracleVars, rangeVars, tableVars>>

----------------------------------------------------------------------------
(* Specifications: one per group of functions; the variables of the other   *)
(* groups stay at their initial values.                                     *)

NoHistory == [n \in Nodes |-> {}]

InitPlatform == system = "Linux" /\ machine = "x86_64" /\ mac_ok = FALSE

InitOracleSpec ==
    /\ parents \in Dags
    /\ InitOracle /\ InitRange /\ InitPlatform /\ InitTableIdle /\ InitRepo

InitRangeSpec ==
    /\ parents \in Dags
    /\ InitOracle /\ InitRange /\ InitPlatform /\ InitTableIdle /\ InitRepo

InitTableSpec ==
    /\ parents = NoHistory
    /\ InitOracle /\ InitRange /\ InitTable /\ InitRepo

InitRepoSpec ==
    /\ parents = NoHistory
    /\ InitOracle /\ InitRange /\ InitPlatform /\ InitTableIdle /\ InitRepo

Init == InitOracleSpec
Next == NextOracle
Spec == Init /\ [][Next]_vars

SpecRange == InitRangeSpec /\ [][NextRange]_vars
SpecTable == InitTableSpec /\ [][NextTable]_vars
SpecRepo  == InitRepoSpec /\ [][NextRepo]_vars

----------------------------------------------------------------------------
(* Claims about exists_and_is_ancestor, checked under Spec *)

\* a is b, or a strict ancestor of b, in the history DAG
IsAncestorOrSelf(a, b) ==
    a = b \/ (a # b /\ NodeOf(a) \in AncestorsOf(NodeOf(b)))

\* C1: when both revisions exist and hg ran successfully, the answer is true
\* exactly when rev_a is rev_b or a strict ancestor of it.
C1_AnswerIsAncestry ==
    (pc = "returned" /\ returncode = 0 /\ Exists(rev_a) /\ Exists(rev_b))
        => (result <=> IsAncestorOrSelf(rev_a, rev_b))

C1_Witness ==
    /\ pc = "returned" /\ returncode = 0 /\ Exists(rev_a) /\ Exists(rev_b)
    /\ rev_a # rev_b /\ result = TRUE

\* C2: when hg's output carries the unknown-revision sentinel the call returns
\* false and raises nothing.
C2_UnknownRevisionIsFalse ==
    (pc \in {"returned", "raised"} /\ Contains(out, Sentinel))
        => (pc = "returned" /\ result = FALSE)

C2_Witness ==
    /\ pc = "returned" /\ Exists(rev_a) /\ ~Exists(rev_b)
    /\ Contains(out, Sentinel) /\ result = FALSE

\* C3: a non-zero exit status without the sentinel never ends in a boolean answer.
C3_ToolFailureIsFatal ==
    (returncode # 0 /\ ~Contains(out, Sentinel)) => pc # "returned"

\* C4: a timeout is never answered: it leaves the function as TimeoutExpired, and
\* one call starts hg at most twice (the first attempt and one retry).
C4_TimeoutIsRaised ==
    /\ exc = "TimeoutExpired" => pc = "raised"
    /\ pc = "returned" => exc = ""
    /\ launches <= 2

C4_Witness == pc = "raised" /\ exc = "TimeoutExpired" /\ launches = 1

----------------------------------------------------------------------------
(* Claims about hgrange and common_descendants, checked under SpecRange *)

HgrangeEvaluated == rpc = "evaluated" /\ rfn = "hgrange" /\ hgerr = ""

MalformedCall ==
    \/ rfn = "hgrange" /\ (Malformed(first_bad) \/ Malformed(first_good))
    \/ rfn = "common_descendants" /\ \E i \in DOMAIN revs : Malformed(revs[i])

\* C10 as stated: a constructor given a malformed identifier raises
\* InvalidRevision and no expression is produced or handed to hg.
C10_MalformedIsRejected ==
    MalformedCall => (rpc = "raised" /\ rexc = "InvalidRevision" /\ expr = "")

\* C10 amended: the constructors reject nothing: every call returns an
\* expression that holds each identifier as given, malformed ones included.
C10_NothingIsRejected ==
    rfn # "none"
        => /\ rpc # "raised" /\ rexc = ""
           /\ rfn = "hgrange" =>
                 /\ Contains(expr, "(id(" \o first_bad \o "))-")
                 /\ Contains(expr, "(id(" \o first_good \o ")))")
           /\ rfn = "common_descendants" =>
                 \A i \in DOMAIN revs :
                     Contains(expr, "descendants(" \o revs[i] \o ")")

C10_Witness ==
    /\ rpc = "evaluated" /\ rfn = "hgrange" /\ first_bad = ""
    /\ rexc = "" /\ Contains(expr, "id()")

----------------------------------------------------------------------------
(* Claims about the tables, checked under SpecTable *)

GenericLinuxRange == hgrange("e94dceac8090", "516c01f62d84")
Aarch64Range == hgrange("e8bb22053e65", "999757e9e5a5")
ProfilingRange == hgrange("aa1da5ed8a07", "5a03382283ae")

TwoCalls == tfn = "known_broken_ranges" /\ tfn' = "known_broken_ranges"

\* C6 as stated: between two calls where the second has every option of the
\* first switched on, and possibly more, no range is lost.
C6_MonotonicInOptions ==
    [][(TwoCalls /\ \A n \in OptionNames : options[n] => options'[n])
          => Range(skips) \subseteq Range(skips')]_vars

\* C6 amended: no range is lost when the second call differs by activation
\* conditions becoming true: enableMoreDeterministic or enableSimulatorArm32
\* switched on, disableProfiling or enableDbg switched off.
C6_MonotonicInConditions ==
    [][(/\ TwoCalls
        /\ options.enableMoreDeterministic => options'.enableMoreDeterministic
        /\ options.enableSimulatorArm32 => options'.enableSimulatorArm32
        /\ options'.disableProfiling => options.disableProfiling
        /\ options'.enableDbg => options.enableDbg)
          => Range(skips) \subseteq Range(skips')]_vars

C6_Witness ==
    /\ tfn = "known_broken_ranges" /\ system = "Linux"
    /\ options.enableMoreDeterministic /\ options.enableSimulatorArm32
    /\ ~options.disableProfiling /\ ~options.enableDbg
    /\ ProfilingRange \in Range(skips)
    /\ hgrange("427b854cdb1c", "4c4e45853808") \in Range(skips)
    /\ hgrange("284002382c21", "05669ce25b03") \in Range(skips)

PlainLinuxCall ==
    /\ tfn = "known_broken_ranges" /\ system = "Linux" /\ machine = "x86_64"
    /\ options = NoOptions

\* C7 as stated: on Linux x86_64 with no option set the generic Linux range is
\* returned and the aarch64 and profiling ranges are not.
C7_PlainLinuxNoProfilingRange ==
    PlainLinuxCall
        => /\ GenericLinuxRange \in Range(skips)
           /\ Aarch64Range \notin Range(skips)
           /\ ProfilingRange \notin Range(skips)

\* C7 amended: on Linux x86_64 with no option set the generic Linux range and
\* the profiling range are returned and the aarch64 range is not.
C7_PlainLinuxHasProfilingRange ==
    PlainLinuxCall
        => /\ GenericLinuxRange \in Range(skips)
           /\ Aarch64Range \notin Range(skips)
           /\ ProfilingRange \in Range(skips)

C7_Witness == PlainLinuxCall /\ Len(skips) = 8

WasmGcRev == "302befe7689abad94a75f66ded82d5e71b558dc4"
BaselineRev == "bb868860dfc35876d2d9c421c037c75a4fb9b3d2"

\* the table of earliest_known_working_rev in its order: each revision with
\* whether its own trigger holds in the current state
RequiredTable ==
    <<[rev |-> "7a1ad6647c22bd34a6c70e67dc26e5b83f71cea4",
       on |-> "--enable-experimental-fields" \in flags],
      [rev |-> "48dc14f79fb0a51ca796257a4179fe6f16b71b14",
       on |-> flags \cap WasmCompilerFlags # {}],
      [rev |-> "450b8f0cbb4e494b399ebcf23a33b8d9cb883245",
       on |-> "--more-compartments" \in flags],
      [rev |-> "c6a8b4d451afa922c4838bd202749c7e131cf05e",
       on |-> "--no-streams" \in flags],
      [rev |-> "577ffed9f102439db47afebcef95bbaaa2e04c93",
       on |-> system = "Windows" /\ options.enable32],
      [rev |-> "c085e1b32fb9bbdb00360bfb0a1057d20a752f4c",
       on |-> system = "Windows"],
      [rev |-> WasmGcRev, on |-> "--wasm-gc" \in flags],
      [rev |-> "321c29f4850882a2f0220a4dc041c53992c47992",
       on |-> flags \cap {"--nursery-strings=on", "--nursery-strings=off"} # {}],
      [rev |-> "a98f615965d73f6462924188fc2b1f2a620337bb",
       on |-> flags \cap {"--spectre-mitigations=on", "--spectre-mitigations=off"} # {}],
      [rev |-> "b1dc87a94262c1bf2747d2bf560e21af5deb3174",
       on |-> "--test-wasm-await-tier2" \in flags],
      [rev |-> "e2ecf684f49e9a6f6d072c289df68ef679968c4c",
       on |-> system = "Darwin"],
      [rev |-> "1b55231e6628e70f0c2ee2b2cb40a1e9861ac4b4",
       on |-> \E f \in flags : Find(f, "--cpu-count=") >= 0],
      [rev |-> BaselineRev, on |-> TRUE]>>

WasmGcPos == CHOOSE i \in DOMAIN RequiredTable : RequiredTable[i].rev = WasmGcRev

WasmGcCall ==
    tfn = "earliest_known_working_rev" /\ texc = "" /\ "--wasm-gc" \in flags

\* C8 as stated: with --wasm-gc the required list holds the wasm-gc revision
\* and every revision listed above it, and below it only those whose own
\* trigger holds.
C8_WasmGcIncludesAllAbove ==
    WasmGcCall
        => /\ WasmGcRev \in Range(required)
           /\ \A i \in DOMAIN RequiredTable :
                 /\ i < WasmGcPos => RequiredTable[i].rev \in Range(required)
                 /\ i > WasmGcPos =>
                       (RequiredTable[i].rev \in Range(required) => RequiredTable[i].on)

\* C8 amended: with --wasm-gc the required list holds the wasm-gc revision and
\* the baseline, and any other revision, above or below, exactly when its own
\* trigger holds; the list keeps the table's order.
C8_WasmGcIncludesTriggered ==
    WasmGcCall
        => /\ WasmGcRev \in Range(required)
           /\ BaselineRev \in Range(required)
           /\ \A i \in DOMAIN RequiredTable :
                 RequiredTable[i].rev \in Range(required) <=> RequiredTable[i].on
           /\ required = SelectSeq([i \in DOMAIN RequiredTable |-> RequiredTable[i].rev],
                                   LAMBDA r : r \in Range(required))
           /\ Contains(earliest, "descendants(" \o WasmGcRev \o ")")

C8_Witness ==
    /\ WasmGcCall /\ flags = {"--wasm-gc"} /\ system = "Linux"
    /\ required = <<WasmGcRev, BaselineRev>>

----------------------------------------------------------------------------
(* Claim about get_repo_hash_and_id, checked under SpecRepo *)

\* C9: after an empty first position query the operator is prompted, and on
\* the answer "a" the process exits with status 0 having run no hg command
\* after the prompt; nothing else ends the process.
C9_AbortExitsCleanly ==
    /\ (gpc # "prompt" /\ Len(io) >= 2 /\ io[2] = Input /\ update_default = "a")
           => /\ gpc = "exited" /\ exit_status = 0
              /\ hg_id_full = ""
              /\ io = <<HgLog(repo_dir, repo_rev), Input>>
    /\ gpc = "exited" => (update_default = "a" /\ ~ENABLED NextRepo)

C9_Witness ==
    /\ gpc = "exited" /\ exit_status = 0 /\ update_default = "a"
    /\ io = <<HgLog(repo_dir, repo_rev), Input>>

====
